---- MODULE Spec2Model ----
(***************************************************************************)
(* Model of openapi_core.validation.request.validators.RequestValidator:   *)
(* the three entry points validate, _validate_parameters and               *)
(* _validate_body, the security resolution, the parameter pipeline and the *)
(* body pipeline.                                                          *)
(*                                                                         *)
(* Every pipeline operator returns, next to its Python result, the ordered *)
(* list of collaborator calls it made (field "log"), so that "stage X is   *)
(* never run" and "stage X runs before stage Y" are statements about the   *)
(* model's state.                                                          *)
(*                                                                         *)
(* Encodings.  Python None is the empty option <<>>, a present value x is  *)
(* <<x>>.  A dict is a function on its key set.  A value store maps a name *)
(* to the non-empty sequence of its occurrences; request.stores holds the  *)
(* type of the store of each location: "dict" (a plain dict, one           *)
(* occurrence per name, no getall and no getlist), "getlist" (a            *)
(* multi-dict with getlist) or "getall" (a multi-dict with getall).  An    *)
(* exception instance is the record [type, arg].                           *)
(***************************************************************************)
EXTENDS Integers, Sequences, FiniteSets, TLC

VARIABLES
    spec,       \* self.spec: the specification the validator was built with
    request,    \* the request object handed to the entry points (mutable)
    pre,        \* the request as it was when the last entry point was called
    entry,      \* the entry point called last ("none" before the first call)
    result,     \* the RequestValidationResult the last call returned
    raised,     \* the exception the last call let through, None if it returned
    log         \* the collaborator calls the last call made, in order

vars == <<spec, request, pre, entry, result, raised, log>>

(***************************************************************************)
(* Bounds of the model.                                                    *)
(***************************************************************************)
MaxAlternatives == 3   \* security requirement alternatives in one list
MaxOperationParams == 2 \* parameter declarations on the operation
MaxPathParams == 1     \* parameter declarations on the path item

(***************************************************************************)
(* Option values, dicts, events, errors.                                   *)
(***************************************************************************)
None == <<>>
Some(x) == <<x>>
IsNone(o) == o = <<>>
Get(o) == o[1]

EmptyDict == [k \in {} |-> <<>>]
DictSet(d, k, v) == [x \in (DOMAIN d) \cup {k} |-> IF x = k THEN v ELSE d[x]]

SeqsUpTo(S, n) == UNION {[1..k -> S] : k \in 0..n}
Range(s) == {s[i] : i \in DOMAIN s}

\* One collaborator call: which collaborator, on what (a scheme name, a
\* parameter name, a mimetype), and for parameters the 1-based position of
\* the declaration in chain(operation parameters, path-item parameters).
Event(op, arg, idx) == [op |-> op, arg |-> arg, idx |-> idx]

Exc(type, arg) == [type |-> type, arg |-> arg]

Locations == {"path", "query", "header", "cookie"}

(***************************************************************************)
(* Collaborators that live outside validators.py.  Each is a deterministic *)
(* function of its inputs.  A value keeps the raw tokens it came from, whether *)
(* it is a list, and the stages that produced it; the tokens "xd", "xc",   *)
(* "xu" make the deserializer, the caster, the unmarshaller fail.          *)
(***************************************************************************)
RawValue(toks, multi) == [toks |-> toks, multi |-> multi, via |-> <<>>]
Through(v, stage) == [v EXCEPT !.via = Append(@, stage)]
Has(v, tok) == \E i \in DOMAIN v.toks : v.toks[i] = tok

\* A call that returns or raises: [ok, value, exc].
NoExc == [type |-> "", arg |-> ""]
NoValue == RawValue(<<>>, FALSE)
Returned(v) == [ok |-> TRUE, value |-> v, exc |-> NoExc]
Raised(e) == [ok |-> FALSE, value |-> NoValue, exc |-> e]

\* RequestValidator._deserialise_parameter: the style-aware deserializer
\* the factory creates for the parameter, called on the raw value.
_deserialise_parameter(param, v) ==
    IF Has(v, "xd") THEN Raised(Exc("DeserializeError", param.name))
    ELSE Returned(Through(v, "deserialise_parameter"))

\* BaseValidator._deserialise_data: the deserializer of the mimetype.
_deserialise_data(mimetype, v) ==
    IF Has(v, "xd") THEN Raised(Exc("DeserializeError", mimetype))
    ELSE Returned(Through(v, "deserialise_data"))

\* BaseValidator._cast
_cast(v) ==
    IF Has(v, "xc") THEN Raised(Exc("CastError", "xc"))
    ELSE Returned(Through(v, "cast"))

\* BaseValidator._unmarshal
_unmarshal(v) ==
    IF Has(v, "xu") THEN Raised(Exc("UnmarshalError", "xu"))
    ELSE Returned(Through(v, "unmarshal"))

\* BaseValidator._get_media_type: the declared media type matching the
\* request's mimetype, or MediaTypeFinderError.
_get_media_type(content, req) ==
    IF req.mimetype \in DOMAIN content
    THEN [ok |-> TRUE, mimetype |-> req.mimetype,
          media_type |-> content[req.mimetype], exc |-> NoExc]
    ELSE [ok |-> FALSE, mimetype |-> req.mimetype,
          media_type |-> [schema |-> FALSE],
          exc |-> Exc("MediaTypeFinderError", req.mimetype)]

\* A security provider called on the request: the credential the request
\* carries for the scheme, or SecurityError when it carries none.
ProviderOk(scheme_name, req) == scheme_name \in DOMAIN req.credentials

\* BaseValidator._find_path: the path template of the specification matches
\* the request paths listed in sp.matches (each with its path variables) and
\* declares the methods in sp.methods; anything else is a PathError.
_find_path(req, sp) ==
    IF req.path \in DOMAIN sp.matches /\ req.method \in sp.methods
    THEN [ok |-> TRUE, path |-> sp.path, operation |-> sp.operation,
          variables |-> sp.matches[req.path], exc |-> NoExc]
    ELSE [ok |-> FALSE, path |-> sp.path, operation |-> sp.operation,
          variables |-> EmptyDict, exc |-> Exc("PathError", req.path)]

\* Faulty variant of _get_security_value: a scheme the registry does not
\* hold raises SecurityError.
_get_security_value_strict(scheme_name, req, sp) ==
    IF scheme_name \notin sp.securitySchemes
    THEN [ok |-> FALSE, value |-> None, log |-> <<>>]
    ELSE [ok |-> ProviderOk(scheme_name, req),
          value |-> IF ProviderOk(scheme_name, req)
                    THEN Some(req.credentials[scheme_name]) ELSE None,
          log |-> <<Event("security_provider", scheme_name, 0)>>]

(***************************************************************************)
(* RequestValidator._get_security_value                                    *)
(***************************************************************************)
\* [ok, value, log]: value is None for a scheme the registry does not hold
\* (no provider is created), the provider's credential otherwise.
_get_security_value(scheme_name, req, sp) ==
    IF scheme_name \notin sp.securitySchemes
    THEN [ok |-> TRUE, value |-> None, log |-> <<>>]
    ELSE [ok |-> ProviderOk(scheme_name, req),
          value |-> IF ProviderOk(scheme_name, req)
                    THEN Some(req.credentials[scheme_name]) ELSE None,
          log |-> <<Event("security_provider", scheme_name, 0)>>]

(***************************************************************************)
(* RequestValidator._get_security                                          *)
(***************************************************************************)
\* Faulty variant of ResolveRequirement: a scheme that raises SecurityError
\* is left out and the rest of the requirement is still resolved, so a
\* partly resolved requirement is returned.
RECURSIVE ResolveRequirement_partial(_, _, _, _, _)
ResolveRequirement_partial(names, i, req, sp, acc) ==
    IF i > Len(names) THEN acc
    ELSE LET r == _get_security_value(names[i], req, sp)
         IN  ResolveRequirement_partial(names, i + 1, req, sp,
                 [ok |-> TRUE,
                  value |-> IF r.ok THEN DictSet(acc.value, names[i], r.value)
                            ELSE acc.value,
                  log |-> acc.log \o r.log])

\* Faulty variant of ResolveRequirement: every scheme of the requirement is
\* resolved before a failure is looked at, so providers after the first
\* failing one are invoked too.
RECURSIVE ResolveRequirement_resolve_all(_, _, _, _, _)
ResolveRequirement_resolve_all(names, i, req, sp, acc) ==
    IF i > Len(names)
    THEN IF acc.ok THEN acc ELSE [acc EXCEPT !.value = EmptyDict]
    ELSE LET r == _get_security_value(names[i], req, sp)
         IN  ResolveRequirement_resolve_all(names, i + 1, req, sp,
                 [ok |-> acc.ok /\ r.ok,
                  value |-> DictSet(acc.value, names[i], r.value),
                  log |-> acc.log \o r.log])

\* The dict comprehension over one security requirement: the scheme names
\* in key order; the first SecurityError abandons the comprehension.
RECURSIVE ResolveRequirement(_, _, _, _, _)
ResolveRequirement(names, i, req, sp, acc) ==
    IF i > Len(names) THEN acc
    ELSE LET r == _get_security_value(names[i], req, sp)
         IN  IF ~r.ok
             THEN [ok |-> FALSE, value |-> EmptyDict, log |-> acc.log \o r.log]
             ELSE ResolveRequirement(names, i + 1, req, sp,
                      [ok |-> TRUE,
                       value |-> DictSet(acc.value, names[i], r.value),
                       log |-> acc.log \o r.log])

\* The for loop over the security requirements, from requirement i on.
RECURSIVE TryRequirements(_, _, _, _, _)
TryRequirements(security, i, req, sp, logSoFar) ==
    IF i > Len(security)
    THEN [ok |-> FALSE, value |-> EmptyDict, log |-> logSoFar,
          exc |-> Exc("InvalidSecurity", "")]
    ELSE LET r == ResolveRequirement(security[i], 1, req, sp,
                      [ok |-> TRUE, value |-> EmptyDict, log |-> <<>>])
         IN  IF r.ok
             THEN [ok |-> TRUE, value |-> r.value, log |-> logSoFar \o r.log,
                   exc |-> NoExc]
             ELSE TryRequirements(security, i + 1, req, sp, logSoFar \o r.log)

\* Faulty variant of EffectiveSecurity: "operation security or spec
\* security", so an empty operation list falls back to the spec-wide one.
EffectiveSecurity_or(operation, sp) ==
    IF ~IsNone(operation.security) /\ Get(operation.security) # <<>>
    THEN operation.security ELSE sp.security

\* The effective list: the operation's when it has the key, else the
\* specification's, else None.
EffectiveSecurity(operation, sp) ==
    IF ~IsNone(operation.security) THEN operation.security ELSE sp.security

_get_security(req, operation, sp) ==
    LET security == EffectiveSecurity(operation, sp)
    IN  IF IsNone(security) \/ Get(security) = <<>>
        THEN [ok |-> TRUE, value |-> EmptyDict, log |-> <<>>,
              exc |-> NoExc]
        ELSE TryRequirements(Get(security), 1, req, sp, <<>>)

(***************************************************************************)
(* RequestValidator._get_parameter_value                                   *)
(***************************************************************************)
\* A parameter declaration is the record
\*   [name, in, required, deprecated, aslist, explode, content, schema,
\*    default]
\* content / schema: the declaration has the key; default: the option
\* holding the token of schema['default'].
\* kind is "value", "MissingRequiredParameter", "MissingParameter" or
\* "AttributeError": a store that is a plain dict has neither getall nor
\* getlist, and location.getlist raises.
_get_parameter_value(param, req) ==
    LET location == req.parameters[param.in]
    IN  IF param.name \notin DOMAIN location
        THEN [kind |-> IF param.required THEN "MissingRequiredParameter"
                       ELSE "MissingParameter",
              value |-> NoValue]
        ELSE IF param.aslist /\ param.explode
        THEN IF req.stores[param.in] = "getall"
             THEN [kind |-> "value",
                   value |-> RawValue(location[param.name], TRUE)]
             ELSE IF req.stores[param.in] = "getlist"
             THEN [kind |-> "value",
                   value |-> RawValue(location[param.name], TRUE)]
             ELSE [kind |-> "AttributeError", value |-> NoValue]
        ELSE [kind |-> "value",
              value |-> RawValue(<<Head(location[param.name])>>, FALSE)]

(***************************************************************************)
(* RequestValidator._get_parameter                                         *)
(***************************************************************************)
\* cast and unmarshal of one parameter, from the deserialised value on.
CastAndUnmarshal(param, idx, deserialised, logSoFar) ==
    LET c == _cast(deserialised)
        l1 == Append(logSoFar, Event("param_cast", param.name, idx))
    IN  IF ~c.ok
        THEN [kind |-> "error", value |-> NoValue, exc |-> c.exc, log |-> l1]
        ELSE LET u == _unmarshal(c.value)
                 l2 == Append(l1, Event("param_unmarshal", param.name, idx))
             IN  IF ~u.ok
                 THEN [kind |-> "error", value |-> NoValue, exc |-> u.exc,
                       log |-> l2]
                 ELSE [kind |-> "value", value |-> u.value, exc |-> NoExc,
                       log |-> l2]

\* The else branch: deserialise (simple or content scenario), cast,
\* unmarshal.
FromRaw(param, idx, raw_value, l1) ==
    LET d == IF ~param.content
             THEN _deserialise_parameter(param, raw_value)
             ELSE _deserialise_data("content", raw_value)
        l2 == Append(l1, Event("param_deserialise", param.name, idx))
    IN  IF ~d.ok
        THEN [kind |-> "error", value |-> NoValue, exc |-> d.exc, log |-> l2]
        ELSE CastAndUnmarshal(param, idx, d.value, l2)

\* Faulty variant of FromDefault: the default is taken as the raw value and
\* sent through deserialise, cast and unmarshal like a value of the request.
FromDefault_as_raw_value(param, idx, l1) ==
    IF ~param.schema \/ IsNone(param.default)
    THEN [kind |-> "missing", value |-> NoValue, exc |-> NoExc, log |-> l1]
    ELSE FromRaw(param, idx, RawValue(<<Get(param.default)>>, FALSE), l1)

\* The except MissingParameter branch: without a schema default the
\* exception propagates; with one, casted = schema['default'] and only
\* _unmarshal follows.
FromDefault(param, idx, l1) ==
    IF ~param.schema \/ IsNone(param.default)
    THEN [kind |-> "missing", value |-> NoValue, exc |-> NoExc, log |-> l1]
    ELSE LET u == _unmarshal(RawValue(<<Get(param.default)>>, FALSE))
             l2 == Append(l1, Event("param_unmarshal", param.name, idx))
         IN  IF ~u.ok
             THEN [kind |-> "error", value |-> NoValue, exc |-> u.exc,
                   log |-> l2]
             ELSE [kind |-> "value", value |-> u.value, exc |-> NoExc,
                   log |-> l2]

\* kind is "value" (the unmarshalled value), "missing" (MissingParameter
\* propagates), "error" (an exception _get_parameters collects, in exc) or
\* "raise" (the AttributeError of the fetch, which no except clause names).
_get_parameter(param, idx, req) ==
    LET l0 == IF param.deprecated
              THEN <<Event("warn_deprecated", param.name, idx)>> ELSE <<>>
        raw == _get_parameter_value(param, req)
        l1 == Append(l0, Event("param_fetch", param.name, idx))
    IN  IF raw.kind = "AttributeError"
        THEN [kind |-> "raise", value |-> NoValue,
              exc |-> Exc("AttributeError", "getlist"), log |-> l1]
        ELSE IF raw.kind = "MissingRequiredParameter"
        THEN [kind |-> "error", value |-> NoValue,
              exc |-> Exc("MissingRequiredParameter", param.name), log |-> l1]
        ELSE IF raw.kind = "MissingParameter"
        THEN FromDefault(param, idx, l1)
        ELSE FromRaw(param, idx, raw.value, l1)

(***************************************************************************)
(* RequestValidator._get_parameters                                        *)
(***************************************************************************)
NoLocations == [l \in Locations |-> EmptyDict]

\* Faulty variant of ParameterStep: a pair counts as seen only once a
\* declaration of it gave a value, so a shadowed declaration is tried
\* when the first one is missing or fails.
ParameterStep_seen_on_success(param, idx, req, acc) ==
    IF <<param.name, param.in>> \in acc.seen
    THEN acc
    ELSE LET r == _get_parameter(param, idx, req)
             seen == acc.seen \cup {<<param.name, param.in>>}
         IN  IF r.kind = "raise"
             THEN [acc EXCEPT !.seen = seen, !.log = @ \o r.log,
                              !.raised = Some(r.exc)]
             ELSE IF r.kind = "missing"
             THEN [acc EXCEPT !.log = @ \o r.log]
             ELSE IF r.kind = "error"
             THEN [acc EXCEPT !.log = @ \o r.log,
                              !.errors = Append(@, r.exc)]
             ELSE [acc EXCEPT !.seen = seen, !.log = @ \o r.log,
                              !.locations[param.in] =
                                  DictSet(@, param.name, r.value)]

\* One iteration of the for loop: the state acc = [errors, seen, locations,
\* log, raised] after the declaration at position idx; raised holds the
\* exception that leaves the loop uncaught.
ParameterStep(param, idx, req, acc) ==
    IF <<param.name, param.in>> \in acc.seen
    THEN acc
    ELSE LET r == _get_parameter(param, idx, req)
             seen == acc.seen \cup {<<param.name, param.in>>}
         IN  IF r.kind = "raise"
             THEN [acc EXCEPT !.seen = seen, !.log = @ \o r.log,
                              !.raised = Some(r.exc)]
             ELSE IF r.kind = "missing"
             THEN [acc EXCEPT !.seen = seen, !.log = @ \o r.log]
             ELSE IF r.kind = "error"
             THEN [acc EXCEPT !.seen = seen, !.log = @ \o r.log,
                              !.errors = Append(@, r.exc)]
             ELSE [acc EXCEPT !.seen = seen, !.log = @ \o r.log,
                              !.locations[param.in] =
                                  DictSet(@, param.name, r.value)]

RECURSIVE ParameterLoop(_, _, _, _)
ParameterLoop(params, idx, req, acc) ==
    IF idx > Len(params) \/ ~IsNone(acc.raised) THEN acc
    ELSE ParameterLoop(params, idx + 1, req,
                       ParameterStep(params[idx], idx, req, acc))

\* [parameters, errors, log, raised]: what the method returns, or in
\* raised the exception it lets through.
_get_parameters(req, params) ==
    LET acc == ParameterLoop(params, 1, req,
                   [errors |-> <<>>, seen |-> {}, locations |-> NoLocations,
                    log |-> <<>>, raised |-> None])
    IN  [parameters |-> acc.locations, errors |-> acc.errors, log |-> acc.log,
         raised |-> acc.raised]

(***************************************************************************)
(* RequestValidator._get_body_value                                        *)
(***************************************************************************)
\* Faulty variant of _get_body_value: the required flag is not consulted.
_get_body_value_required_ignored(request_body, req) ==
    IF IsNone(req.body) \/ req.body = Some("")
    THEN [kind |-> "MissingRequestBody", value |-> NoValue]
    ELSE [kind |-> "value", value |-> RawValue(<<Get(req.body)>>, FALSE)]

\* Faulty variant of _get_body_value: only a payload that is None counts as
\* missing, an empty one is handed on.
_get_body_value_none_only(request_body, req) ==
    IF IsNone(req.body)
    THEN [kind |-> IF request_body.required THEN "MissingRequiredRequestBody"
                   ELSE "MissingRequestBody",
          value |-> NoValue]
    ELSE [kind |-> "value", value |-> RawValue(<<Get(req.body)>>, FALSE)]

\* request.body is None (the option <<>>) or a string; "" is the empty
\* payload.  Both are falsy.
_get_body_value(request_body, req) ==
    IF IsNone(req.body) \/ req.body = Some("")
    THEN [kind |-> IF request_body.required THEN "MissingRequiredRequestBody"
                   ELSE "MissingRequestBody",
          value |-> NoValue]
    ELSE [kind |-> "value", value |-> RawValue(<<Get(req.body)>>, FALSE)]

(***************************************************************************)
(* RequestValidator._get_body                                              *)
(***************************************************************************)
BodyResult(body, errors, blog) == [body |-> body, errors |-> errors, log |-> blog]

\* Faulty variant of BodyStages: a cast failure is recorded but the
\* pipeline goes on to unmarshal, and unmarshal runs without a schema.
BodyStages_no_short_circuit(mt, raw_body, l2) ==
    LET d == _deserialise_data(mt.mimetype, raw_body)
        l3 == Append(l2, Event("body_deserialise", mt.mimetype, 0))
    IN  IF ~d.ok THEN BodyResult(None, <<d.exc>>, l3)
        ELSE LET c == _cast(d.value)
                 l4 == Append(l3, Event("body_cast", mt.mimetype, 0))
                 u == _unmarshal(IF c.ok THEN c.value ELSE d.value)
                 l5 == Append(l4, Event("body_unmarshal", mt.mimetype, 0))
                 errs == (IF c.ok THEN <<>> ELSE <<c.exc>>)
                             \o (IF u.ok THEN <<>> ELSE <<u.exc>>)
             IN  IF errs # <<>> THEN BodyResult(None, errs, l5)
                 ELSE BodyResult(Some(u.value), <<>>, l5)

\* From the selected media type on: deserialise, cast, unmarshal.
BodyStages(mt, raw_body, l2) ==
    LET d == _deserialise_data(mt.mimetype, raw_body)
        l3 == Append(l2, Event("body_deserialise", mt.mimetype, 0))
    IN  IF ~d.ok THEN BodyResult(None, <<d.exc>>, l3)
        ELSE LET c == _cast(d.value)
                 l4 == Append(l3, Event("body_cast", mt.mimetype, 0))
             IN  IF ~c.ok THEN BodyResult(None, <<c.exc>>, l4)
                 ELSE IF ~mt.media_type.schema
                 THEN BodyResult(Some(c.value), <<>>, l4)
                 ELSE LET u == _unmarshal(c.value)
                          l5 == Append(l4, Event("body_unmarshal", mt.mimetype, 0))
                      IN  IF ~u.ok THEN BodyResult(None, <<u.exc>>, l5)
                          ELSE BodyResult(Some(u.value), <<>>, l5)

\* [body, errors, log]; the operation's requestBody is None or
\* Some([required, content]), content a dict mimetype -> [schema].
_get_body(req, operation) ==
    IF IsNone(operation.requestBody) THEN BodyResult(None, <<>>, <<>>)
    ELSE LET request_body == Get(operation.requestBody)
             raw == _get_body_value(request_body, req)
             l1 == <<Event("body_fetch", "", 0)>>
         IN  IF raw.kind = "MissingRequiredRequestBody"
             THEN BodyResult(None, <<Exc("MissingRequiredRequestBody", "")>>, l1)
             ELSE IF raw.kind = "MissingRequestBody"
             THEN BodyResult(None, <<>>, l1)
             ELSE LET mt == _get_media_type(request_body.content, req)
                      l2 == Append(l1, Event("media_type", req.mimetype, 0))
                  IN  IF ~mt.ok THEN BodyResult(None, <<mt.exc>>, l2)
                      ELSE BodyStages(mt, raw.value, l2)

(***************************************************************************)
(* RequestValidationResult and the three entry points.                     *)
(***************************************************************************)
\* The attrs defaults: errors [], body None, parameters RequestParameters()
\* (every location empty), security None.
RequestValidationResult(errors, body, parameters, security) ==
    [errors |-> errors, body |-> body, parameters |-> parameters,
     security |-> security]

ErrorResult(exc) == RequestValidationResult(<<exc>>, None, NoLocations, None)

\* What the caller holds when no entry point has returned to it.
NoResult == RequestValidationResult(<<>>, None, NoLocations, None)

\* Faulty variant of MergePathVariables: the matched variables replace what
\* the caller had put in the path store.
MergePathVariables_overwrite(req, variables) ==
    [req EXCEPT !.parameters["path"] = variables, !.stores["path"] = "dict"]

\* request.parameters.path = request.parameters.path or path_result.variables
\* An empty store of any type is falsy; the variables of the path result
\* are a plain dict.
MergePathVariables(req, variables) ==
    IF req.parameters["path"] # EmptyDict THEN req
    ELSE [req EXCEPT !.parameters["path"] = variables,
                     !.stores["path"] = "dict"]

\* chain(operation parameters, path-item parameters)
ChainedParameters(path, operation) == operation.parameters \o path.parameters

FindPathEvent == Event("find_path", "", 0)

\* An entry point gives [result, raised, request, log]: the result object
\* it returns or the exception it lets through, the request object as the
\* call leaves it, and the calls it made.
Outcome(res, req, l) ==
    [result |-> res, raised |-> None, request |-> req, log |-> l]
Propagate(exc, req, l) ==
    [result |-> NoResult, raised |-> exc, request |-> req, log |-> l]

\* errors = params_errors + body_errors
CombineErrors(params_errors, body_errors) == params_errors \o body_errors

\* Faulty variant of validate: the path variables are merged into the
\* request before the security gate instead of after it.
validate_merge_before_security(req, sp) ==
    LET fp == _find_path(req, sp)
    IN  IF ~fp.ok THEN Outcome(ErrorResult(fp.exc), req, <<FindPathEvent>>)
        ELSE
        LET req2 == MergePathVariables(req, fp.variables)
            sec == _get_security(req2, fp.operation, sp)
            l1 == <<FindPathEvent>> \o sec.log
        IN  IF ~sec.ok THEN Outcome(ErrorResult(sec.exc), req2, l1)
            ELSE
            LET p == _get_parameters(req2,
                         ChainedParameters(fp.path, fp.operation))
                b == _get_body(req2, fp.operation)
            IN  IF ~IsNone(p.raised) THEN Propagate(p.raised, req2, l1 \o p.log)
                ELSE
                Outcome(RequestValidationResult(p.errors \o b.errors, b.body,
                            p.parameters, Some(sec.value)),
                        req2, l1 \o p.log \o b.log)

\* Faulty variant of validate: the path variables are merged into the
\* request after the parameter pipeline has read it.
validate_merge_after_parameters(req, sp) ==
    LET fp == _find_path(req, sp)
    IN  IF ~fp.ok THEN Outcome(ErrorResult(fp.exc), req, <<FindPathEvent>>)
        ELSE
        LET sec == _get_security(req, fp.operation, sp)
            l1 == <<FindPathEvent>> \o sec.log
        IN  IF ~sec.ok THEN Outcome(ErrorResult(sec.exc), req, l1)
            ELSE
            LET p == _get_parameters(req,
                         ChainedParameters(fp.path, fp.operation))
                req2 == MergePathVariables(req, fp.variables)
                b == _get_body(req2, fp.operation)
            IN  IF ~IsNone(p.raised) THEN Propagate(p.raised, req, l1 \o p.log)
                ELSE
                Outcome(RequestValidationResult(p.errors \o b.errors, b.body,
                            p.parameters, Some(sec.value)),
                        req2, l1 \o p.log \o b.log)

\* RequestValidator.validate
validate(req, sp) ==
    LET fp == _find_path(req, sp)
    IN  IF ~fp.ok THEN Outcome(ErrorResult(fp.exc), req, <<FindPathEvent>>)
        ELSE
        LET sec == _get_security(req, fp.operation, sp)
            l1 == <<FindPathEvent>> \o sec.log
        IN  IF ~sec.ok THEN Outcome(ErrorResult(sec.exc), req, l1)
            ELSE
            LET req2 == MergePathVariables(req, fp.variables)
                p == _get_parameters(req2,
                         ChainedParameters(fp.path, fp.operation))
                b == _get_body(req2, fp.operation)
            IN  IF ~IsNone(p.raised) THEN Propagate(p.raised, req2, l1 \o p.log)
                ELSE
                Outcome(RequestValidationResult(
                            CombineErrors(p.errors, b.errors), b.body,
                            p.parameters, Some(sec.value)),
                        req2, l1 \o p.log \o b.log)

\* Faulty variant of _validate_parameters: it goes on to the body pipeline
\* as validate does.
_validate_parameters_with_body(req, sp) ==
    LET fp == _find_path(req, sp)
    IN  IF ~fp.ok THEN Outcome(ErrorResult(fp.exc), req, <<FindPathEvent>>)
        ELSE
        LET req2 == MergePathVariables(req, fp.variables)
            p == _get_parameters(req2, ChainedParameters(fp.path, fp.operation))
            b == _get_body(req2, fp.operation)
        IN  IF ~IsNone(p.raised)
            THEN Propagate(p.raised, req2, <<FindPathEvent>> \o p.log)
            ELSE
            Outcome(RequestValidationResult(p.errors \o b.errors, b.body,
                        p.parameters, None),
                    req2, <<FindPathEvent>> \o p.log \o b.log)

\* RequestValidator._validate_parameters
_validate_parameters(req, sp) ==
    LET fp == _find_path(req, sp)
    IN  IF ~fp.ok THEN Outcome(ErrorResult(fp.exc), req, <<FindPathEvent>>)
        ELSE
        LET req2 == MergePathVariables(req, fp.variables)
            p == _get_parameters(req2, ChainedParameters(fp.path, fp.operation))
        IN  IF ~IsNone(p.raised)
            THEN Propagate(p.raised, req2, <<FindPathEvent>> \o p.log)
            ELSE
            Outcome(RequestValidationResult(p.errors, None, p.parameters, None),
                    req2, <<FindPathEvent>> \o p.log)

\* Faulty variant of _validate_body: the PathError is recorded but the
\* body pipeline still runs.
_validate_body_ungated(req, sp) ==
    LET fp == _find_path(req, sp)
        b == _get_body(req, fp.operation)
    IN  Outcome(RequestValidationResult(
                    (IF fp.ok THEN <<>> ELSE <<fp.exc>>) \o b.errors, b.body,
                    NoLocations, None),
                req, <<FindPathEvent>> \o b.log)

\* Faulty variant of _validate_body: the security gate of validate runs
\* before the body pipeline.
_validate_body_with_security(req, sp) ==
    LET fp == _find_path(req, sp)
    IN  IF ~fp.ok THEN Outcome(ErrorResult(fp.exc), req, <<FindPathEvent>>)
        ELSE
        LET sec == _get_security(req, fp.operation, sp)
            l1 == <<FindPathEvent>> \o sec.log
        IN  IF ~sec.ok THEN Outcome(ErrorResult(sec.exc), req, l1)
            ELSE
            LET b == _get_body(req, fp.operation)
            IN  Outcome(RequestValidationResult(b.errors, b.body, NoLocations,
                            None),
                        req, l1 \o b.log)

\* RequestValidator._validate_body
_validate_body(req, sp) ==
    LET fp == _find_path(req, sp)
    IN  IF ~fp.ok THEN Outcome(ErrorResult(fp.exc), req, <<FindPathEvent>>)
        ELSE
        LET b == _get_body(req, fp.operation)
        IN  Outcome(RequestValidationResult(b.errors, b.body, NoLocations, None),
                    req, <<FindPathEvent>> \o b.log)

(***************************************************************************)
(* Inputs: the specifications and requests the entry points are run on.    *)
(***************************************************************************)
Decl(name, in, required, deprecated, aslist, explode, content, schema, default) ==
    [name |-> name, in |-> in, required |-> required,
     deprecated |-> deprecated, aslist |-> aslist, explode |-> explode,
     content |-> content, schema |-> schema, default |-> default]

\* A simple parameter (typed by its schema), neither list nor deprecated.
Simple(name, in, required, default) ==
    Decl(name, in, required, FALSE, FALSE, FALSE, FALSE, TRUE, default)

\* The single path template "/r/{id}", and a template without variables.
PathMatches == ("/r/7" :> ("id" :> <<"7">>)) @@ ("/s" :> EmptyDict)

MkSpec(specSecurity, opSecurity, opParams, pathParams, requestBody) ==
    [security |-> specSecurity,
     securitySchemes |-> {"k1", "k2", "k3"},
     matches |-> PathMatches,
     methods |-> {"get"},
     path |-> [parameters |-> pathParams],
     operation |-> [parameters |-> opParams, security |-> opSecurity,
                    requestBody |-> requestBody]]

\* RequestParameters as a request class builds it: the query is a
\* multi-dict with getlist, path, header and cookie are plain dicts.
StoreTypes == {"dict", "getlist", "getall"}
DefaultStores ==
    [l \in Locations |-> IF l = "query" THEN "getlist" ELSE "dict"]

MkRequest(method, path, pathStore, queryStore, body, mimetype, credentials) ==
    [method |-> method, path |-> path,
     parameters |-> [l \in Locations |->
                        IF l = "path" THEN pathStore
                        ELSE IF l = "query" THEN queryStore ELSE EmptyDict],
     stores |-> DefaultStores,
     body |-> body, mimetype |-> mimetype, credentials |-> credentials]

\* -- security -----------------------------------------------------------
\* "kx" is a scheme name the registry does not hold.
Requirements ==
    {<<>>, <<"k1">>, <<"k2">>, <<"k3">>, <<"k1", "k2">>, <<"k2", "kx">>}
SecurityLists == SeqsUpTo(Requirements, MaxAlternatives)
Credentials ==
    {EmptyDict, ("k1" :> "c1"), ("k2" :> "c2"),
     ("k1" :> "c1") @@ ("k2" :> "c2"), ("k1" :> "c1") @@ ("k3" :> "c3")}
SpecSecurities == {None, Some(<<>>), Some(<<<<"k1">>>>), Some(<<<<"k2">>, <<"k1">>>>)}

JsonBody == Some([required |-> TRUE, content |-> ("json" :> [schema |-> TRUE])])

OperationSecurities == {None} \cup {Some(l) : l \in SecurityLists}

\* -- parameters ---------------------------------------------------------
OperationDecls ==
    {Simple("a", "query", TRUE, None),
     Simple("a", "query", FALSE, None),
     Simple("a", "query", FALSE, Some("dv")),
     Simple("b", "query", TRUE, Some("dv")),
     Simple("id", "path", TRUE, None),
     Simple("a", "header", TRUE, None),
     \* a deprecated content parameter (no schema key of its own)
     Decl("b", "query", FALSE, TRUE, FALSE, FALSE, TRUE, FALSE, None)}

PathItemDecls ==
    {Simple("a", "query", TRUE, None),
     Simple("a", "query", FALSE, Some("dv")),
     Simple("b", "query", FALSE, None)}

QueryStores ==
    {EmptyDict,
     ("a" :> <<"v">>),
     ("a" :> <<"xd">>),
     ("a" :> <<"xc">>),
     ("a" :> <<"xu">>) @@ ("b" :> <<"w">>),
     ("b" :> <<"w">>)}

\* -- body ---------------------------------------------------------------
Contents ==
    {("json" :> [schema |-> TRUE]),
     ("json" :> [schema |-> FALSE]),
     ("json" :> [schema |-> TRUE]) @@ ("text" :> [schema |-> FALSE])}
RequestBodies ==
    {None} \cup {Some([required |-> r, content |-> c]) :
                    r \in BOOLEAN, c \in Contents}
Payloads == {None, Some(""), Some("p"), Some("xd"), Some("xc"), Some("xu")}
Mimetypes == {"json", "text", "xml"}

(***************************************************************************)
(* The state machine: a validator built on a specification, a request, and *)
(* entry points called on it any number of times.                          *)
(***************************************************************************)
\* The state after construction: a validator on sp, and the request req
\* no entry point has seen yet.
Start(sp, req) ==
    /\ spec = sp
    /\ request = req
    /\ pre = req
    /\ entry = "none"
    /\ result = NoResult
    /\ raised = None
    /\ log = <<>>

\* Security varies: spec-wide and operation lists, credentials carried.
InitSecurity ==
    \E ss \in SpecSecurities, os \in OperationSecurities, cr \in Credentials :
        Start(MkSpec(ss, os, <<Simple("a", "query", TRUE, None)>>, <<>>,
                     JsonBody),
              MkRequest("get", "/r/7", EmptyDict, ("a" :> <<"v">>), Some("p"),
                        "json", cr))

\* Parameter declarations and the query store vary.
InitParameters ==
    \E op \in SeqsUpTo(OperationDecls, MaxOperationParams),
       pi \in SeqsUpTo(PathItemDecls, MaxPathParams),
       qs \in QueryStores :
        Start(MkSpec(None, None, op, pi, None),
              MkRequest("get", "/r/7", EmptyDict, qs, None, "json", EmptyDict))

\* The request body declaration, the payload and the mimetype vary.
InitBody ==
    \E rb \in RequestBodies, pl \in Payloads, mt \in Mimetypes,
       qs \in {("a" :> <<"v">>), ("a" :> <<"xc">>)} :
        Start(MkSpec(None, None, <<Simple("a", "query", TRUE, None)>>, <<>>, rb),
              MkRequest("get", "/r/7", EmptyDict, qs, pl, mt, EmptyDict))

\* Everything together, lightly: path resolution, security, parameters, a
\* caller-populated path store, body.
InitMixed ==
    \E os \in {None, Some(<<>>), Some(<<<<"k1">>, <<"k2", "k1">>>>)},
       op \in {<<>>, <<Simple("a", "query", TRUE, None),
                       Simple("id", "path", TRUE, None)>>},
       pi \in {<<>>, <<Simple("a", "query", FALSE, Some("dv"))>>},
       rb \in {None, JsonBody,
               Some([required |-> FALSE,
                     content |-> ("json" :> [schema |-> FALSE])])},
       x \in {<<"get", "/r/7">>, <<"get", "/s">>, <<"get", "/nope">>,
              <<"put", "/r/7">>},
       ps \in {EmptyDict, ("id" :> <<"9">>)},
       qs \in {EmptyDict, ("a" :> <<"v">>), ("a" :> <<"xu">>)},
       pl \in {None, Some("p"), Some("xu")},
       mt \in {"json", "xml"},
       cr \in {EmptyDict, ("k2" :> "c2")} :
        Start(MkSpec(Some(<<<<"k2">>>>), os, op, pi, rb),
              MkRequest(x[1], x[2], ps, qs, pl, mt, cr))

\* Schema defaults vary: a parameter with a default, absent or present.
DefaultTokens == {"dv", "xd", "xc", "xu"}
InitDefaults ==
    \E tok \in DefaultTokens, content \in BOOLEAN, deprecated \in BOOLEAN,
       qs \in {EmptyDict, ("a" :> <<"v">>), ("b" :> <<"w">>)} :
        Start(MkSpec(None, None,
                     <<Decl("a", "query", FALSE, deprecated, FALSE, FALSE,
                            content, TRUE, Some(tok)),
                       Simple("b", "query", FALSE, None)>>,
                     <<>>, None),
              MkRequest("get", "/r/7", EmptyDict, qs, None, "json", EmptyDict))

\* The list flags and the occurrences of the name in the query vary.
OccurrenceLists == {<<"v">>, <<"v", "w">>, <<"v", "xu">>, <<"xc", "v">>}
InitLists ==
    \E aslist \in BOOLEAN, explode \in BOOLEAN, content \in BOOLEAN,
       occ \in OccurrenceLists :
        Start(MkSpec(None, None,
                     <<Decl("t", "query", TRUE, FALSE, aslist, explode,
                            content, ~content, None)>>,
                     <<>>, None),
              MkRequest("get", "/r/7", EmptyDict, ("t" :> occ), None, "json",
                        EmptyDict))

\* A list parameter in the path, the query or the header, with the store
\* of its location of every type.  The path store is the caller's or, when
\* the caller left it empty, the matched variables; a plain dict holds one
\* occurrence per name.
ListDecls ==
    {Decl(n, l, TRUE, FALSE, aslist, explode, FALSE, TRUE, None) :
        n \in {"id"}, l \in {"path", "query", "header"},
        aslist \in BOOLEAN, explode \in BOOLEAN}
StoredOccurrences(type) ==
    IF type = "dict" THEN {<<"9">>} ELSE {<<"9">>, <<"9", "8">>}
InitStores ==
    \E d \in ListDecls, type \in StoreTypes, filled \in BOOLEAN,
       other \in {<<>>, <<Simple("a", "query", TRUE, None)>>,
                   <<Simple("a", "query", FALSE, Some("v"))>>},
       first \in BOOLEAN, pl \in {None, Some("p")},
       ss \in {None, Some(<<<<"k2", "kx">>>>)} :
        \E occ \in StoredOccurrences(type) :
            LET r == MkRequest("get", "/r/7", EmptyDict, EmptyDict, pl, "json",
                               ("k2" :> "c2"))
                store == IF filled \/ d.in # "path" THEN ("id" :> occ)
                         ELSE EmptyDict
            IN  Start(MkSpec(ss, None,
                             IF first THEN <<d>> \o other ELSE other \o <<d>>,
                             <<>>, JsonBody),
                      [r EXCEPT !.parameters[d.in] = store,
                                !.stores[d.in] = type])

Init ==
    InitSecurity \/ InitParameters \/ InitBody \/ InitMixed \/ InitDefaults
        \/ InitLists \/ InitStores

Call(name, out) ==
    /\ pre' = request
    /\ entry' = name
    /\ result' = out.result
    /\ raised' = out.raised
    /\ request' = out.request
    /\ log' = out.log
    /\ UNCHANGED spec

Validate == Call("validate", validate(request, spec))

ValidateParameters ==
    Call("validate_parameters", _validate_parameters(request, spec))

ValidateBody == Call("validate_body", _validate_body(request, spec))

Next == Validate \/ ValidateParameters \/ ValidateBody

Spec == Init /\ [][Next]_vars

(***************************************************************************)
(* Vocabulary of the properties.  Everything below is stated on the state  *)
(* a call leaves: pre (the request the call was given), request (the       *)
(* request as the call left it), result and log.                           *)
(***************************************************************************)
Called == entry # "none"

ParamOps == {"warn_deprecated", "param_fetch", "param_deserialise",
             "param_cast", "param_unmarshal"}
BodyOps == {"body_fetch", "media_type", "body_deserialise", "body_cast",
            "body_unmarshal"}

OpsIn(ops) == SelectSeq(log, LAMBDA e : e.op \in ops)
NoneOf(ops) == \A i \in DOMAIN log : log[i].op \notin ops
ProviderArgs == [i \in DOMAIN OpsIn({"security_provider"}) |->
                    OpsIn({"security_provider"})[i].arg]

ErrorTypes == {result.errors[i].type : i \in DOMAIN result.errors}

\* The match path resolution made for the call.
PathOk == pre.path \in DOMAIN spec.matches /\ pre.method \in spec.methods
Operation == spec.operation
PathItem == spec.path

\* The effective alternative list as the specification text defines it.
DeclaredAlternatives ==
    IF ~IsNone(Operation.security) THEN Get(Operation.security)
    ELSE IF ~IsNone(spec.security) THEN Get(spec.security)
    ELSE <<>>

\* A scheme of an alternative resolves without a security error: it is not
\* in the registry, or the request carries its credential.
SchemeResolves(name) ==
    name \in spec.securitySchemes => name \in DOMAIN pre.credentials
Satisfied(alt) == \A i \in DOMAIN alt : SchemeResolves(alt[i])
SatisfiedIndexes ==
    {k \in DOMAIN DeclaredAlternatives : Satisfied(DeclaredAlternatives[k])}
SecurityFails == DeclaredAlternatives # <<>> /\ SatisfiedIndexes = {}
FirstSatisfied ==
    CHOOSE k \in SatisfiedIndexes : \A j \in SatisfiedIndexes : k <= j

\* The provider calls one attempted alternative makes: its registered
\* schemes in order, up to and including the first that fails.
FailingPositions(alt) == {i \in DOMAIN alt : ~SchemeResolves(alt[i])}
AttemptedPrefix(alt) ==
    IF FailingPositions(alt) = {} THEN alt
    ELSE SubSeq(alt, 1, CHOOSE i \in FailingPositions(alt) :
                            \A j \in FailingPositions(alt) : i <= j)
ProvidersOf(alt) ==
    SelectSeq(AttemptedPrefix(alt), LAMBDA n : n \in spec.securitySchemes)
RECURSIVE ProvidersUpTo(_)
ProvidersUpTo(k) ==
    IF k = 0 THEN <<>>
    ELSE ProvidersUpTo(k - 1) \o ProvidersOf(DeclaredAlternatives[k])

\* validate got past both gates.
GatesPassed == entry = "validate" /\ PathOk /\ ~SecurityFails

\* The declarations of the operation, in processing order.
Chain == ChainedParameters(PathItem, Operation)
Pair(d) == <<d.name, d.in>>
FirstSeen ==
    {i \in DOMAIN Chain : \A j \in 1..(i - 1) : Pair(Chain[j]) # Pair(Chain[i])}
Shadowed == (DOMAIN Chain) \ FirstSeen

\* The parameter pipeline was started in the last call.
ParamsRan == PathOk /\ (entry = "validate_parameters" \/ GatesPassed)

\* The declaration's name is absent from the store of its location.
Absent(d) == d.name \notin DOMAIN request.parameters[d.in]
RequiredAbsent == {i \in FirstSeen : Chain[i].required /\ Absent(Chain[i])}

\* What processing declaration i on its own gives.
Alone(i) == _get_parameter(Chain[i], i, request)
Failing == {i \in FirstSeen : Alone(i).kind = "error"}

\* The declarations whose fetch lets an exception through, and the
\* declarations the loop gets to: those up to the first of them.
Raising == {i \in FirstSeen : Alone(i).kind = "raise"}
Reached == {i \in FirstSeen : \A j \in Raising : i <= j}
\* The parameter pipeline returns to the entry point.
ParamsReturn == Raising = {}
\* The last call returned a result.
Returns == ParamsRan => ParamsReturn
\* The body pipeline ran in the last call.
BodyRan ==
    PathOk /\ (entry = "validate_body" \/ (GatesPassed /\ ParamsReturn))

(***************************************************************************)
(* C1: in each of the three entry points, a failed path/operation          *)
(* resolution returns a result with exactly one error, the path error, no  *)
(* parameters, no body and no security mapping, and nothing but path       *)
(* resolution has run: no security provider, no parameter fetch, no body   *)
(* stage; the request is left as it was.                                   *)
(***************************************************************************)
C1_PathErrorIsFatal ==
    (Called /\ ~PathOk) =>
        /\ IsNone(raised)
        /\ Len(result.errors) = 1
        /\ result.errors[1].type = "PathError"
        /\ result.parameters = NoLocations
        /\ IsNone(result.body)
        /\ IsNone(result.security)
        /\ log = <<FindPathEvent>>
        /\ request = pre

\* validate on a request no path matches, where security, parameters and a
\* body are all declared and would each have had work to do.
C1_Witness ==
    /\ entry = "validate"
    /\ ~PathOk
    /\ DeclaredAlternatives # <<>>
    /\ ChainedParameters(PathItem, Operation) # <<>>
    /\ ~IsNone(Operation.requestBody)
    /\ ~IsNone(pre.body)
    /\ Len(result.errors) = 1

(***************************************************************************)
(* C2: in validate, when the effective security list is non-empty and no   *)
(* alternative has all of its schemes resolve, the result carries exactly  *)
(* one error, InvalidSecurity, and no parameters, body or security         *)
(* mapping; neither the parameter pipeline nor the body pipeline is        *)
(* started and the request's path value store is not modified.             *)
(***************************************************************************)
C2_InvalidSecurityIsFatal ==
    (entry = "validate" /\ PathOk /\ SecurityFails) =>
        /\ IsNone(raised)
        /\ result.errors = <<Exc("InvalidSecurity", "")>>
        /\ result.parameters = NoLocations
        /\ IsNone(result.body)
        /\ IsNone(result.security)
        /\ NoneOf(ParamOps \cup BodyOps)
        /\ request.parameters["path"] = pre.parameters["path"]
        /\ request = pre

\* the security gate fails on a request whose path store the merge would
\* have filled, with parameters and a body declared.
C2_Witness ==
    /\ entry = "validate"
    /\ PathOk
    /\ SecurityFails
    /\ pre.parameters["path"] = EmptyDict
    /\ spec.matches[pre.path] # EmptyDict
    /\ ChainedParameters(PathItem, Operation) # <<>>
    /\ ~IsNone(Operation.requestBody)
    /\ result.errors = <<Exc("InvalidSecurity", "")>>

(***************************************************************************)
(* C3: security resolution returns the mapping of the lowest-index         *)
(* alternative whose every scheme resolves: its keys are exactly that      *)
(* alternative's scheme names, each value is that scheme's own credential  *)
(* (nothing from an earlier, failed alternative), the earlier failures are *)
(* not among the result's errors, and the providers invoked are those of   *)
(* the alternatives up to the returned one, none of a later one.           *)
(***************************************************************************)
C3_FirstSatisfiedAlternative ==
    (GatesPassed /\ DeclaredAlternatives # <<>>) =>
        LET alt == DeclaredAlternatives[FirstSatisfied]
            mapping == Get(result.security)
        IN  /\ Returns =>
                   /\ ~IsNone(result.security)
                   /\ DOMAIN mapping = Range(alt)
                   /\ \A n \in Range(alt) :
                          mapping[n] = IF n \in spec.securitySchemes
                                       THEN Some(pre.credentials[n]) ELSE None
            /\ ErrorTypes \cap {"SecurityError", "InvalidSecurity"} = {}
            /\ ProviderArgs = ProvidersUpTo(FirstSatisfied)

\* the second of three alternatives is returned; the first resolved one of
\* its schemes before failing on another, the third has a provider.
C3_Witness ==
    /\ GatesPassed
    /\ Len(DeclaredAlternatives) = 3
    /\ FirstSatisfied = 2
    /\ Len(ProvidersOf(DeclaredAlternatives[1])) = 2
    /\ ProvidersOf(DeclaredAlternatives[3]) # <<>>
    /\ DeclaredAlternatives[2] # <<>>
    /\ Range(DeclaredAlternatives[1]) \cap Range(DeclaredAlternatives[2]) = {}
    /\ ~IsNone(result.security)

(***************************************************************************)
(* C4: the effective alternative list is the operation's whenever the      *)
(* operation declares a security key, even an empty one, and the           *)
(* spec-wide list only otherwise.  validate fails with InvalidSecurity     *)
(* exactly when that list is non-empty and unsatisfied; an operation with  *)
(* an empty list over a non-empty spec-wide list gets the empty mapping,   *)
(* no provider is invoked, and the parameter and body pipelines run.       *)
(***************************************************************************)
C4_OperationSecurityOverrides ==
    (entry = "validate" /\ PathOk) =>
        /\ ("InvalidSecurity" \in ErrorTypes) <=> SecurityFails
        /\ IsNone(raised) <=> Returns
        /\ DeclaredAlternatives = <<>> =>
               /\ Returns => result.security = Some(EmptyDict)
               /\ NoneOf({"security_provider"})
        /\ (Operation.security = Some(<<>>) /\ ~IsNone(spec.security)
                /\ Get(spec.security) # <<>>) =>
               /\ Returns => result.security = Some(EmptyDict)
               /\ NoneOf({"security_provider"})
               /\ Len(OpsIn({"param_fetch"})) >= 1
                      <=> ChainedParameters(PathItem, Operation) # <<>>
               /\ ParamsReturn =>
                      (Len(OpsIn({"body_fetch"})) = 1
                          <=> ~IsNone(Operation.requestBody))

\* an operation with security: [] under a spec-wide list the request does
\* not satisfy: validation goes on to parameters and body.
C4_Witness ==
    /\ entry = "validate"
    /\ PathOk
    /\ Operation.security = Some(<<>>)
    /\ ~IsNone(spec.security)
    /\ \A k \in DOMAIN Get(spec.security) : ~Satisfied(Get(spec.security)[k])
    /\ Get(spec.security) # <<>>
    /\ result.security = Some(EmptyDict)
    /\ Len(OpsIn({"param_fetch"})) >= 1
    /\ Len(OpsIn({"body_fetch"})) = 1

(***************************************************************************)
(* Vocabulary of the parameter properties.                                 *)
(***************************************************************************)
\* The errors of the body pipeline are the last ones of the result.
BodyErrorCount ==
    IF entry = "validate_parameters" \/ ~BodyRan THEN 0
    ELSE Len(_get_body(request, Operation).errors)
ParamErrors == SubSeq(result.errors, 1, Len(result.errors) - BodyErrorCount)
BodyErrors ==
    SubSeq(result.errors, Len(result.errors) - BodyErrorCount + 1,
           Len(result.errors))

EventsOf(i) == SelectSeq(log, LAMBDA e : e.op \in ParamOps /\ e.idx = i)

\* Declaration i left exactly what processing it alone gives.
Reflected(i) ==
    LET d == Chain[i]
        o == Alone(i)
    IN  /\ o.kind = "value" =>
              /\ d.name \in DOMAIN result.parameters[d.in]
              /\ result.parameters[d.in][d.name] = o.value
        /\ o.kind = "error" => o.exc \in Range(ParamErrors)
        /\ EventsOf(i) = o.log

(***************************************************************************)
(* C5: declarations are processed operation first, then path item, and for *)
(* every (name, location) pair only the first declaration seen is          *)
(* processed.  A later declaration of the pair is never fetched,           *)
(* deserialized, cast or unmarshalled and contributes neither a value nor  *)
(* an error, also when the first one ended in a missing-value skip or an   *)
(* error.                                                                  *)
(***************************************************************************)
C5_FirstDeclarationWins ==
    ParamsRan =>
        /\ \A i \in Shadowed : EventsOf(i) = <<>>
        /\ \A i \in FirstSeen :
               Len(SelectSeq(EventsOf(i), LAMBDA e : e.op = "param_fetch"))
                   = IF i \in Reached THEN 1 ELSE 0
        /\ \A a, b \in DOMAIN OpsIn(ParamOps) :
               a < b => OpsIn(ParamOps)[a].idx <= OpsIn(ParamOps)[b].idx
        /\ \A i \in FirstSeen :
               LET d == Chain[i]
               IN  IF Returns /\ Alone(i).kind = "value"
                   THEN /\ d.name \in DOMAIN result.parameters[d.in]
                        /\ result.parameters[d.in][d.name] = Alone(i).value
                   ELSE d.name \notin DOMAIN result.parameters[d.in]
        /\ Len(ParamErrors) = IF Returns THEN Cardinality(Failing) ELSE 0

\* operation and path item declare the same pair; the operation's
\* declaration ends without a value, the path item's alone would give one.
C5_Witness ==
    /\ ParamsRan
    /\ \E i \in FirstSeen, j \in Shadowed :
           /\ i <= Len(Operation.parameters)
           /\ j > Len(Operation.parameters)
           /\ Pair(Chain[i]) = Pair(Chain[j])
           /\ Alone(i).kind = "error"
           /\ Alone(j).kind = "value"
           /\ Chain[i].name \notin DOMAIN result.parameters[Chain[i].in]

(***************************************************************************)
(* C6: for every processed declaration that is required and whose name is  *)
(* absent from the store of its location, the parameter pipeline records   *)
(* exactly one missing-required-parameter error and no value (a schema     *)
(* default is not substituted, no later stage runs for it), and every      *)
(* other declared parameter is still processed and resolves to the value   *)
(* or error it has on its own.  (Processed: the first declaration of its   *)
(* (name, location) pair, as C5 has it.)                                   *)
(***************************************************************************)
C6_MissingRequiredParameter ==
    ParamsRan =>
        \A i \in RequiredAbsent :
            LET d == Chain[i]
                e == Exc("MissingRequiredParameter", d.name)
            IN  /\ Cardinality({k \in DOMAIN ParamErrors : ParamErrors[k] = e})
                       = Cardinality({j \in RequiredAbsent :
                                         Chain[j].name = d.name})
                /\ d.name \notin DOMAIN result.parameters[d.in]
                /\ \A k \in DOMAIN EventsOf(i) :
                       EventsOf(i)[k].op \in {"warn_deprecated", "param_fetch"}
                /\ \A j \in FirstSeen \ {i} : Reflected(j)

\* a required parameter with a schema default is absent, and two other
\* declarations are processed after and before it: one to a value.
C6_Witness ==
    /\ ParamsRan
    /\ \E i \in RequiredAbsent, j \in FirstSeen :
           /\ ~IsNone(Chain[i].default)
           /\ i < j
           /\ Alone(j).kind = "value"
           /\ Chain[j].name \in DOMAIN result.parameters[Chain[j].in]
           /\ Exc("MissingRequiredParameter", Chain[i].name)
                  \in Range(result.errors)

(***************************************************************************)
(* C7: past both gates validate runs the parameter pipeline and then the   *)
(* body pipeline, each whatever the other's errors; the result's errors    *)
(* are the parameter errors in declaration-processing order followed by    *)
(* the body errors, and the body and body errors are those of the same     *)
(* request validated with no parameter declared at all.                    *)
(***************************************************************************)
NthFailing(k) ==
    CHOOSE i \in Failing : Cardinality({j \in Failing : j <= i}) = k
WithoutParameters ==
    validate(pre, [spec EXCEPT !.operation.parameters = <<>>,
                               !.path.parameters = <<>>]).result

C7_ParametersThenBody ==
    GatesPassed =>
        /\ Len(ParamErrors) = Cardinality(Failing)
        /\ \A k \in DOMAIN ParamErrors : ParamErrors[k] = Alone(NthFailing(k)).exc
        /\ result.errors = ParamErrors \o WithoutParameters.errors
        /\ result.body = WithoutParameters.body
        /\ \A i \in FirstSeen : Reflected(i)
        /\ \A a, b \in DOMAIN log :
               (log[a].op \in ParamOps /\ log[b].op \in BodyOps) => a < b
        /\ Len(OpsIn({"body_fetch"})) = 1 <=> ~IsNone(Operation.requestBody)

\* two parameters fail, in order, and the body pipeline fails as well.
C7_Witness ==
    /\ GatesPassed
    /\ Len(ParamErrors) = 2
    /\ ParamErrors[1] # ParamErrors[2]
    /\ Len(BodyErrors) = 1
    /\ Len(result.errors) = 3
    /\ result.errors[3] = BodyErrors[1]

(***************************************************************************)
(* Vocabulary of the body properties.                                      *)
(***************************************************************************)
\* The parameters-only entry point on the same request: what the
\* parameters and parameter errors are when no body pipeline runs.
ParamsOnly == _validate_parameters(pre, spec).result

\* The errors that follow the parameter errors in the result.
BodyPart ==
    IF entry = "validate_body" THEN result.errors
    ELSE SubSeq(result.errors, Len(ParamsOnly.errors) + 1, Len(result.errors))

StageOrder == <<"body_fetch", "media_type", "body_deserialise", "body_cast",
                "body_unmarshal">>
BodyStagesRun == [i \in DOMAIN OpsIn(BodyOps) |-> OpsIn(BodyOps)[i].op]

RequestBody == Get(Operation.requestBody)
PayloadMissing == IsNone(pre.body) \/ pre.body = Some("")
MediaTypeDeclared == pre.mimetype \in DOMAIN RequestBody.content
SelectedHasSchema == RequestBody.content[pre.mimetype].schema

\* The position in StageOrder of the first stage that does not deliver, 0
\* when every stage does.
FailingStage ==
    IF PayloadMissing THEN 1
    ELSE IF ~MediaTypeDeclared THEN 2
    ELSE IF pre.body = Some("xd") THEN 3
    ELSE IF pre.body = Some("xc") THEN 4
    ELSE IF SelectedHasSchema /\ pre.body = Some("xu") THEN 5
    ELSE 0
StageError ==
    <<"MissingRequiredRequestBody", "MediaTypeFinderError", "DeserializeError",
      "CastError", "UnmarshalError">>

(***************************************************************************)
(* C8: when the operation declares a request body and the payload is       *)
(* absent, the body is absent and the body errors are exactly one          *)
(* missing-required-body error if the body is required, none otherwise; no *)
(* media-type selection, deserialize, cast or unmarshal runs, and the      *)
(* parameters and parameter errors are those of the parameter pipeline.    *)
(***************************************************************************)
C8_AbsentPayload ==
    (BodyRan /\ ~IsNone(Operation.requestBody) /\ IsNone(pre.body)) =>
        LET expected == IF RequestBody.required
                        THEN <<Exc("MissingRequiredRequestBody", "")>>
                        ELSE <<>>
        IN  /\ IsNone(result.body)
            /\ entry = "validate_body" => result.errors = expected
            /\ entry = "validate" =>
                   /\ result.errors = ParamsOnly.errors \o expected
                   /\ result.parameters = ParamsOnly.parameters
            /\ BodyStagesRun = <<"body_fetch">>

\* validate with a required body and no payload, while one parameter
\* resolves and another fails.
C8_Witness ==
    /\ entry = "validate"
    /\ BodyRan
    /\ ~IsNone(Operation.requestBody)
    /\ RequestBody.required
    /\ IsNone(pre.body)
    /\ result.parameters # NoLocations
    /\ Len(result.errors) = 2
    /\ result.errors[2] = Exc("MissingRequiredRequestBody", "")

(***************************************************************************)
(* C9: the body stages run in the order media-type selection, deserialize, *)
(* cast, unmarshal; the first stage that fails ends the pipeline with the  *)
(* body absent and exactly one error, and no later stage is invoked.  So   *)
(* there is at most one body error, a present body implies no body error,  *)
(* and a media type without schema returns the cast value with no error    *)
(* and without unmarshal.                                                  *)
(***************************************************************************)
C9_BodyStagesShortCircuit ==
    (BodyRan /\ ~IsNone(Operation.requestBody)) =>
        /\ BodyStagesRun = SubSeq(StageOrder, 1, Len(BodyStagesRun))
        /\ Len(BodyPart) <= 1
        /\ ~IsNone(result.body) => BodyPart = <<>>
        /\ FailingStage = 1 =>
               /\ BodyStagesRun = <<"body_fetch">>
               /\ IsNone(result.body)
        /\ FailingStage >= 2 =>
               /\ Len(BodyStagesRun) = FailingStage
               /\ IsNone(result.body)
               /\ Len(BodyPart) = 1
               /\ BodyPart[1].type = StageError[FailingStage]
        /\ FailingStage = 0 =>
               /\ BodyPart = <<>>
               /\ ~IsNone(result.body)
               /\ Get(result.body).toks = <<Get(pre.body)>>
               /\ IF SelectedHasSchema
                  THEN /\ Len(BodyStagesRun) = 5
                       /\ Get(result.body).via =
                              <<"deserialise_data", "cast", "unmarshal">>
                  ELSE /\ Len(BodyStagesRun) = 4
                       /\ Get(result.body).via = <<"deserialise_data", "cast">>

\* the deserializer fails under a media type that has a schema: cast and
\* unmarshal are not reached.
C9_Witness ==
    /\ BodyRan
    /\ ~IsNone(Operation.requestBody)
    /\ FailingStage = 3
    /\ SelectedHasSchema
    /\ BodyStagesRun = <<"body_fetch", "media_type", "body_deserialise">>
    /\ IsNone(result.body)
    /\ BodyPart = <<Exc("DeserializeError", pre.mimetype)>>

(***************************************************************************)
(* C10: validate-parameters-only runs no body stage and its result has no  *)
(* body and no body error; validate-body-only fetches, deserializes, casts *)
(* and unmarshals no parameter and its result has no parameters and no     *)
(* parameter error.                                                        *)
(***************************************************************************)
C10_NarrowEntryPoints ==
    /\ entry = "validate_parameters" =>
           /\ NoneOf(BodyOps)
           /\ IsNone(result.body)
           /\ (PathOk /\ Returns) =>
                  /\ Len(result.errors) = Cardinality(Failing)
                  /\ \A i \in FirstSeen : Reflected(i)
    /\ entry = "validate_body" =>
           /\ IsNone(raised)
           /\ NoneOf(ParamOps)
           /\ result.parameters = NoLocations
           /\ Len(result.errors) <= 1
           /\ "MissingRequiredParameter" \notin ErrorTypes
           /\ (PathOk /\ IsNone(Operation.requestBody)) => result.errors = <<>>
           /\ (PathOk /\ ~IsNone(Operation.requestBody) /\ FailingStage = 0)
                  => result.errors = <<>>

\* parameters-only on a request whose required body is missing: the
\* parameter resolves and nothing of the body is reported.
C10_Witness ==
    /\ entry = "validate_parameters"
    /\ PathOk
    /\ ~IsNone(Operation.requestBody)
    /\ RequestBody.required
    /\ IsNone(pre.body)
    /\ result.parameters # NoLocations
    /\ result.errors = <<>>

(***************************************************************************)
(* C11: idempotence.  validate called again on the same request object and *)
(* the same specification returns the same result (parameters, body,       *)
(* security mapping, error list), or lets the same exception through, and  *)
(* leaves the request as it found it,                                      *)
(* also when the first call wrote the matched path variables into the      *)
(* request's path store.                                                   *)
(***************************************************************************)
C11_ValidateIdempotent ==
    [][(entry = "validate" /\ entry' = "validate") =>
           (result' = result /\ raised' = raised /\ request' = request)]_vars

\* validate has run on a request whose path store holds exactly the
\* variables an earlier call wrote there, and resolved a path parameter
\* from them.
C11_Witness ==
    /\ entry = "validate"
    /\ GatesPassed
    /\ pre = request
    /\ spec.matches[pre.path] # EmptyDict
    /\ pre.parameters["path"] = spec.matches[pre.path]
    /\ "id" \in DOMAIN result.parameters["path"]
    /\ result.security # None

(***************************************************************************)
(* Vocabulary of C12.                                                      *)
(***************************************************************************)
\* The processed declarations whose schema default applies.
Defaulted ==
    {i \in FirstSeen : /\ Absent(Chain[i])
                       /\ ~Chain[i].required
                       /\ Chain[i].schema
                       /\ ~IsNone(Chain[i].default)}
\* The stages run for declaration i, the deprecation notice left out.
StagesOf(i) ==
    LET es == SelectSeq(EventsOf(i), LAMBDA e : e.op # "warn_deprecated")
    IN  [k \in DOMAIN es |-> es[k].op]
Stored(i) == result.parameters[Chain[i].in][Chain[i].name]
Valued(i) == Chain[i].name \in DOMAIN result.parameters[Chain[i].in]

(***************************************************************************)
(* C12 as claimed: the default of an absent, optional parameter is used as *)
(* the raw value and goes through the same deserialize, cast and unmarshal *)
(* stages as a value present in the request.                               *)
(***************************************************************************)
C12_DefaultThroughAllStages ==
    ParamsRan =>
        \A i \in Defaulted \cap Reached :
            /\ StagesOf(i) = SubSeq(<<"param_fetch", "param_deserialise",
                                      "param_cast", "param_unmarshal">>,
                                    1, Len(StagesOf(i)))
            /\ Len(StagesOf(i)) >= 2
            /\ Valued(i) =>
                   /\ Len(Stored(i).via) = 3
                   /\ Stored(i).via[2] = "cast"
                   /\ Stored(i).via[3] = "unmarshal"

(***************************************************************************)
(* C12 as amended: the default of an absent, optional parameter is used as *)
(* the already-cast value: only the unmarshal stage processes it, the      *)
(* deserialize and cast stages of a present value are skipped.  The        *)
(* parameter resolves to the unmarshalled default, or to the one error     *)
(* unmarshal raises.                                                       *)
(***************************************************************************)
C12_DefaultIsUnmarshalledOnly ==
    ParamsRan =>
        \A i \in Defaulted \cap Reached :
            /\ StagesOf(i) = <<"param_fetch", "param_unmarshal">>
            /\ Returns =>
                   IF Get(Chain[i].default) = "xu"
                   THEN /\ ~Valued(i)
                        /\ Exc("UnmarshalError", "xu") \in Range(ParamErrors)
                   ELSE /\ Valued(i)
                        /\ Stored(i).toks = <<Get(Chain[i].default)>>
                        /\ Stored(i).via = <<"unmarshal">>
                        /\ ~Stored(i).multi

\* a default the deserializer would have refused is stored, unmarshalled.
C12_Witness ==
    /\ ParamsRan
    /\ \E i \in Defaulted :
           /\ Get(Chain[i].default) = "xd"
           /\ Valued(i)
           /\ Stored(i).via = <<"unmarshal">>
           /\ StagesOf(i) = <<"param_fetch", "param_unmarshal">>
    /\ ParamErrors = <<>>

(***************************************************************************)
(* Vocabulary of C13.                                                      *)
(***************************************************************************)
Unregistered(alt) == Range(alt) \ spec.securitySchemes
\* Every scheme of the alternative that the registry holds has its
\* credential in the request.
RegisteredResolve(alt) ==
    \A n \in Range(alt) \cap spec.securitySchemes : n \in DOMAIN pre.credentials
Resolving ==
    {k \in DOMAIN DeclaredAlternatives :
        RegisteredResolve(DeclaredAlternatives[k])}
Returned1 ==
    DeclaredAlternatives[CHOOSE k \in Resolving : \A j \in Resolving : k <= j]

(***************************************************************************)
(* C13 as claimed: a scheme name that the registry does not hold does not  *)
(* fail its alternative, invokes no provider and contributes no entry: the *)
(* returned mapping has no key for it.                                     *)
(***************************************************************************)
C13_UnregisteredSchemeHasNoKey ==
    (entry = "validate" /\ PathOk /\ DeclaredAlternatives # <<>>) =>
        /\ \A i \in DOMAIN ProviderArgs : ProviderArgs[i] \in spec.securitySchemes
        /\ (Resolving # {} /\ Returns) =>
               /\ ~IsNone(result.security)
               /\ \A n \in Unregistered(Returned1) :
                      n \notin DOMAIN Get(result.security)

(***************************************************************************)
(* C13 as amended: a scheme name that the registry does not hold does not  *)
(* fail its alternative and invokes no provider; the returned mapping has  *)
(* the scheme name as a key, with the value None.                          *)
(***************************************************************************)
C13_UnregisteredSchemeMapsToNone ==
    (entry = "validate" /\ PathOk /\ DeclaredAlternatives # <<>>) =>
        /\ \A i \in DOMAIN ProviderArgs : ProviderArgs[i] \in spec.securitySchemes
        /\ (Resolving # {} /\ Returns) =>
               /\ ~IsNone(result.security)
               /\ "InvalidSecurity" \notin ErrorTypes
               /\ \A n \in Unregistered(Returned1) :
                      /\ n \in DOMAIN Get(result.security)
                      /\ Get(result.security)[n] = None
        /\ Resolving = {} => result.errors = <<Exc("InvalidSecurity", "")>>

\* the returned alternative names a registered scheme, resolved, and the
\* unregistered "kx".
C13_Witness ==
    /\ entry = "validate"
    /\ PathOk
    /\ DeclaredAlternatives # <<>>
    /\ Resolving # {}
    /\ Unregistered(Returned1) = {"kx"}
    /\ ~IsNone(result.security)
    /\ DOMAIN Get(result.security) = {"k2", "kx"}
    /\ Get(result.security)["kx"] = None
    /\ Get(result.security)["k2"] = Some("c2")

(***************************************************************************)
(* C14: in validate and validate-parameters-only, once the preceding gates *)
(* have passed, the request's path store is left as it was if the caller   *)
(* had populated it and is otherwise set to exactly the path variables of  *)
(* path resolution, and the parameters are fetched from the store so set;  *)
(* when a gate fails the store is left unchanged.  Nothing else of the     *)
(* request changes.                                                        *)
(***************************************************************************)
MergedPathStore ==
    IF pre.parameters["path"] # EmptyDict THEN pre.parameters["path"]
    ELSE spec.matches[pre.path]

MergedPathStoreType ==
    IF pre.parameters["path"] # EmptyDict THEN pre.stores["path"] ELSE "dict"

C14_PathStoreMerge ==
    entry \in {"validate", "validate_parameters"} =>
        IF ParamsRan
        THEN /\ request = [pre EXCEPT !.parameters["path"] = MergedPathStore,
                                       !.stores["path"] = MergedPathStoreType]
             /\ \A i \in Reached :
                    Chain[i].in = "path" =>
                        /\ "param_fetch" \in Range(StagesOf(i))
                        /\ IF Chain[i].name \in DOMAIN MergedPathStore
                           THEN /\ i \notin Raising => Len(StagesOf(i)) >= 2
                                /\ Valued(i) =>
                                       Head(Stored(i).toks) =
                                           Head(MergedPathStore[Chain[i].name])
                           ELSE ~Valued(i) /\ Len(StagesOf(i)) = 1
        ELSE request = pre

\* the caller's own path store differs from the matched variables and is
\* kept: the path parameter resolves from the caller's value.
C14_Witness ==
    /\ entry = "validate"
    /\ ParamsRan
    /\ pre.parameters["path"] = ("id" :> <<"9">>)
    /\ spec.matches[pre.path] = ("id" :> <<"7">>)
    /\ request.parameters["path"] = ("id" :> <<"9">>)
    /\ "id" \in DOMAIN result.parameters["path"]
    /\ result.parameters["path"]["id"].toks = <<"9">>

(***************************************************************************)
(* C15: within one validate call a provider is invoked at most once per    *)
(* scheme per attempted alternative and never retried: as soon as one      *)
(* scheme of an alternative raises a security error the remaining schemes  *)
(* of that alternative are not invoked and resolution moves on to the next *)
(* alternative.                                                            *)
(***************************************************************************)
LastAttempted ==
    IF SecurityFails THEN Len(DeclaredAlternatives) ELSE FirstSatisfied
Occurrences(seq, n) == Cardinality({i \in DOMAIN seq : seq[i] = n})

C15_ProvidersInvokedOnce ==
    (entry = "validate" /\ PathOk /\ DeclaredAlternatives # <<>>) =>
        /\ ProviderArgs = ProvidersUpTo(LastAttempted)
        /\ \A n \in spec.securitySchemes :
               Occurrences(ProviderArgs, n) <=
                   Cardinality({k \in 1..LastAttempted :
                                   n \in Range(DeclaredAlternatives[k])})
        /\ \A k \in 1..LastAttempted :
               LET alt == DeclaredAlternatives[k]
               IN  FailingPositions(alt) # {} =>
                       Len(ProvidersOf(alt)) <=
                           CHOOSE i \in FailingPositions(alt) :
                               \A j \in FailingPositions(alt) : i <= j

\* the first scheme of the first alternative raises; its second scheme,
\* which the request could satisfy, is not invoked there, and the next
\* alternative invokes it and is returned.
C15_Witness ==
    /\ entry = "validate"
    /\ PathOk
    /\ Len(DeclaredAlternatives) >= 2
    /\ DeclaredAlternatives[1] = <<"k1", "k2">>
    /\ DeclaredAlternatives[2] = <<"k2">>
    /\ "k1" \notin DOMAIN pre.credentials
    /\ "k2" \in DOMAIN pre.credentials
    /\ ProviderArgs = <<"k1", "k2">>
    /\ result.security = Some(("k2" :> Some("c2")))

(***************************************************************************)
(* Vocabulary of C16 and C17: what a declaration must come to, read off    *)
(* the declaration and the request alone.                                  *)
(***************************************************************************)
Occurring(d) == request.parameters[d.in][d.name]
\* The tokens the raw value is made of.
RawTokens(d) ==
    IF d.aslist /\ d.explode THEN Occurring(d) ELSE <<Head(Occurring(d))>>
HasDefault(d) == d.schema /\ ~IsNone(d.default)
SilentCase(d) == Absent(d) /\ ~d.required /\ ~HasDefault(d)

\* "error", "silent" or "value", and the type of the error.
ExpectedErrorType(d) ==
    IF Absent(d)
    THEN IF d.required THEN "MissingRequiredParameter"
         ELSE IF HasDefault(d) /\ Get(d.default) = "xu" THEN "UnmarshalError"
         ELSE ""
    ELSE IF "xd" \in Range(RawTokens(d)) THEN "DeserializeError"
    ELSE IF "xc" \in Range(RawTokens(d)) THEN "CastError"
    ELSE IF "xu" \in Range(RawTokens(d)) THEN "UnmarshalError"
    ELSE ""
ExpectedKind(d) ==
    IF ExpectedErrorType(d) # "" THEN "error"
    ELSE IF SilentCase(d) THEN "silent"
    ELSE "value"
ErrorKind == {i \in FirstSeen : ExpectedKind(Chain[i]) = "error"}
NthError(k) ==
    CHOOSE i \in ErrorKind : Cardinality({j \in ErrorKind : j <= i}) = k

(***************************************************************************)
(* C16: every distinct declared (name, location) pair ends in exactly one  *)
(* of three outcomes: a value stored under result[location][name], one     *)
(* error appended to the parameter errors, or nothing; nothing exactly     *)
(* when the parameter is absent, not required and without schema default.  *)
(* No pair has both a value and an error, no value is stored under another *)
(* location than the declared one, and a failing parameter does not stop   *)
(* the processing of the remaining declarations.                           *)
(***************************************************************************)
C16_ThreeOutcomes ==
    ParamsRan =>
        /\ \A i \in FirstSeen :
               /\ Valued(i) <=> ExpectedKind(Chain[i]) = "value"
               /\ "param_fetch" \in Range(StagesOf(i))
               /\ SilentCase(Chain[i]) <=> (~Valued(i) /\ i \notin ErrorKind)
        /\ Len(ParamErrors) = Cardinality(ErrorKind)
        /\ \A k \in DOMAIN ParamErrors :
               /\ ParamErrors[k].type = ExpectedErrorType(Chain[NthError(k)])
               /\ ~Valued(NthError(k))
        /\ \A loc \in Locations :
               \A n \in DOMAIN result.parameters[loc] :
                   \E i \in FirstSeen :
                       /\ Chain[i].in = loc
                       /\ Chain[i].name = n
                       /\ ExpectedKind(Chain[i]) = "value"

\* three pairs, three outcomes: the first declaration fails, the second is
\* skipped silently, the third still resolves to a value.
C16_Witness ==
    /\ ParamsRan
    /\ \E i, j, k \in FirstSeen :
           /\ i < j /\ j < k
           /\ ExpectedKind(Chain[i]) = "error"
           /\ SilentCase(Chain[j])
           /\ Valued(k)
    /\ Len(ParamErrors) = 1

(***************************************************************************)
(* C17: for a parameter present in the request the raw value is the        *)
(* ordered sequence of all occurrences of its name exactly when the        *)
(* declaration is both aslist and explode; in every other combination of   *)
(* the flags it is the single looked-up value.                             *)
(***************************************************************************)
C17_AllOccurrencesIffAslistAndExplode ==
    ParamsRan =>
        \A i \in FirstSeen :
            ~Absent(Chain[i]) =>
                LET d == Chain[i]
                    all == d.aslist /\ d.explode
                IN  /\ Len(StagesOf(i)) >= 2
                    /\ StagesOf(i)[2] = "param_deserialise"
                    /\ Valued(i) <=> ExpectedErrorType(d) = ""
                    /\ Valued(i) =>
                           /\ Stored(i).multi = all
                           /\ Stored(i).toks =
                                  IF all THEN Occurring(d)
                                  ELSE <<Head(Occurring(d))>>

\* two occurrences, both flags set: the value is made of both, in order.
C17_Witness ==
    /\ ParamsRan
    /\ \E i \in FirstSeen :
           /\ Chain[i].aslist /\ Chain[i].explode
           /\ ~Absent(Chain[i])
           /\ Occurring(Chain[i]) = <<"v", "w">>
           /\ Valued(i)
           /\ Stored(i).toks = <<"v", "w">>
           /\ Stored(i).multi

(***************************************************************************)
(* C18: the parameters-only and the body-only entry points resolve no      *)
(* security: no security provider is invoked, no InvalidSecurity error is  *)
(* returned and the result carries no security mapping, also on a request  *)
(* whose alternatives are all unsatisfied; on a resolved path the          *)
(* parameters-only result holds what the parameter pipeline gives and the  *)
(* body-only result what the body pipeline gives.                          *)
(***************************************************************************)
Narrow == entry \in {"validate_parameters", "validate_body"}

C18_NarrowEntryPointsSkipSecurity ==
    Narrow =>
        /\ NoneOf({"security_provider"})
        /\ "InvalidSecurity" \notin ErrorTypes
        /\ IsNone(result.security)
        /\ IsNone(raised) <=> Returns
        /\ (PathOk /\ entry = "validate_parameters" /\ Returns) =>
               LET p == _get_parameters(request, Chain)
               IN  /\ result.parameters = p.parameters
                   /\ result.errors = p.errors
        /\ (PathOk /\ entry = "validate_body") =>
               LET b == _get_body(pre, Operation)
               IN  /\ result.body = b.body
                   /\ result.errors = b.errors

\* a request no alternative authorises, and the body-only entry point
\* returns its unmarshalled body.
C18_Witness ==
    /\ entry = "validate_body"
    /\ PathOk
    /\ SecurityFails
    /\ validate(pre, spec).result.errors = <<Exc("InvalidSecurity", "")>>
    /\ result.errors = <<>>
    /\ ~IsNone(result.body)
    /\ IsNone(result.security)

(***************************************************************************)
(* C19: a payload that is present but empty is treated by the body         *)
(* pipeline as an absent one: the body is absent, a required body gives    *)
(* exactly one missing-required-body error and an optional body no error,  *)
(* neither media-type selection nor deserialization (nor any later stage)  *)
(* runs, and the outcome equals the one for the same request without       *)
(* payload.                                                                *)
(***************************************************************************)
EmptyPayload == pre.body = Some("")
WithoutPayload == [pre EXCEPT !.body = None]

C19_EmptyPayloadIsAbsent ==
    (BodyRan /\ ~IsNone(Operation.requestBody) /\ EmptyPayload) =>
        /\ IsNone(result.body)
        /\ BodyPart = IF RequestBody.required
                      THEN <<Exc("MissingRequiredRequestBody", "")>>
                      ELSE <<>>
        /\ NoneOf({"media_type", "body_deserialise", "body_cast",
                   "body_unmarshal"})
        /\ BodyStagesRun = <<"body_fetch">>
        /\ LET absent == _get_body(WithoutPayload, Operation)
           IN  /\ result.body = absent.body
               /\ BodyPart = absent.errors

\* the body-only entry point on an empty payload, the body being required
\* and the request's media type declared.
C19_Witness ==
    /\ entry = "validate_body"
    /\ BodyRan
    /\ ~IsNone(Operation.requestBody)
    /\ RequestBody.required
    /\ MediaTypeDeclared
    /\ EmptyPayload
    /\ result.errors = <<Exc("MissingRequiredRequestBody", "")>>
    /\ IsNone(result.body)

====
